---- MODULE Spec2Model ----
(***************************************************************************)
(* Model of main.py: the OCR worker (OCRWorker) and the main window        *)
(* (OCRApp) with its Qt event loop, worker thread and modal dialogs.       *)
(*                                                                         *)
(* Every Python string is a sequence of chunks (TLA+ strings): the empty   *)
(* string is <<>>, concatenation is \o, "a in b" is SubstringOf.  A file   *)
(* path is <<stem, extension>>; a response text is a sequence of           *)
(* characters.                                                             *)
(***************************************************************************)
EXTENDS Integers, Sequences, FiniteSets, TLC

VARIABLES
    image_path,      \* OCRApp.image_path
    image_label,     \* what the image area shows: <<>> is the placeholder text
    image_info,      \* text of the file-name label
    model_dropdown,  \* [items, index]: the QComboBox, index -1 is "no current item"
    available_models,\* OCRApp.available_models
    process_btn,     \* process_btn.isEnabled()
    result_text,     \* text of the result box
    status_bar,      \* [text, error]
    worker_thread,   \* 0 is None, else the job whose QThread the attribute holds
    workers,         \* the OCRWorker objects, by identity; pc "free": no such object
    emitted,         \* per worker, the signals it has emitted, in order
    uiQueue,         \* queued slot invocations posted to the main thread
    modal,           \* stack of open QMessageBox dialogs (top is last)
    uiThread,        \* what the main thread is executing: "idle" is its event loop
    timerPending,    \* the QTimer.singleShot of __init__ has not fired yet
    closed           \* the main window's close event has been accepted

vars == <<image_path, image_label, image_info, model_dropdown, available_models,
          process_btn, result_text, status_bar, worker_thread, workers, emitted,
          uiQueue, modal, uiThread, timerPending, closed>>

uiState == <<image_path, image_label, image_info, model_dropdown, available_models,
             process_btn, result_text, status_bar, worker_thread, modal, uiThread,
             timerPending, closed>>

----------------------------------------------------------------------------
(* Bounds of the model *)

MaxWorkers == 2     \* OCRWorker objects alive at the same time
MaxLen == 3         \* length of choices[0].message.content
MaxUrls == 1        \* URLs in one drop or one clipboard

----------------------------------------------------------------------------
(* Strings *)

Range(s) == {s[i] : i \in 1..Len(s)}

SeqsUpTo(S, n) == UNION {[1..k -> S] : k \in 0..n}

\* Python "a in b" for strings a, b
SubstringOf(a, b) ==
    \E i \in 1..(Len(b) + 1) :
        /\ i + Len(a) - 1 <= Len(b)
        /\ SubSeq(b, i, i + Len(a) - 1) = a

Whitespace == {" ", "\n"}

RECURSIVE lstrip(_)
lstrip(s) == IF s # <<>> /\ Head(s) \in Whitespace THEN lstrip(Tail(s)) ELSE s

RECURSIVE rstrip(_)
rstrip(s) ==
    IF s # <<>> /\ s[Len(s)] \in Whitespace THEN rstrip(SubSeq(s, 1, Len(s) - 1)) ELSE s

strip_none(s) == s

\* str.strip()
strip(s) == rstrip(lstrip(s))

\* str.lower() on the chunks that occur in paths
lower(c) ==
    CASE c = ".PNG" -> ".png"
      [] c = ".JPG" -> ".jpg"
      [] c = ".TXT" -> ".txt"
      [] OTHER -> c

ImageSuffixes == {".png", ".jpg", ".jpeg", ".bmp", ".gif"}

\* file_path.lower().endswith(('.png', '.jpg', '.jpeg', '.bmp', '.gif'))
HasImageSuffix(file_path) ==
    /\ file_path # <<>>
    /\ lower(file_path[Len(file_path)]) \in ImageSuffixes

\* file_path.split('/')[-1]: paths of the model have no directory part
basename(file_path) == file_path

----------------------------------------------------------------------------
(* OCRWorker *)

Signal(sig, arg) == [sig |-> sig, arg |-> arg]

Elapsed == <<"<elapsed>">>

\* the parsed body of a 200 response, by what line 102 makes of it
JsonKinds == {"invalid", "no_choices", "empty_choices", "no_message", "no_content", "content"}

\* str(e) of the exception lines 101-102 raise on a body of each kind
ParseException(kind) ==
    CASE kind = "invalid" -> <<"Expecting value: line 1 column 1 (char 0)">>
      [] kind = "no_choices" -> <<"'NoneType' object is not subscriptable">>
      [] kind = "empty_choices" -> <<"list index out of range">>
      [] kind = "no_message" -> <<"'NoneType' object has no attribute 'get'">>
      [] OTHER -> <<"'NoneType' object has no attribute 'strip'">>

\* result.get("choices")[0].get("message").get("content").strip()
ExtractText(json) ==
    IF json.kind = "content"
        THEN [ok |-> TRUE, text |-> strip(json.content)]
        ELSE [ok |-> FALSE, text |-> ParseException(json.kind)]

\* f"API error (Groq): {response.text}"
ApiErrorMsg(body) == <<"API error (Groq): ">> \o body

\* what open()/read() of the image does: succeed, or raise an OSError
IoOutcomes == {"ok", "ENOENT", "EISDIR", "EACCES"}

\* "[Errno N] strerror: " of the OSError
OsErrorPrefix(io) ==
    CASE io = "ENOENT" -> <<"[Errno 2] No such file or directory: ">>
      [] io = "EISDIR" -> <<"[Errno 21] Is a directory: ">>
      [] OTHER -> <<"[Errno 13] Permission denied: ">>

\* str(e) of the OSError open() raises: the file name is shown as its repr
IoErrorText(io, path) == OsErrorPrefix(io) \o <<"'">> \o path \o <<"'">>

\* f"Processing error: {str(e)}"
ProcessingErrorMsg(e) == <<"Processing error: ">> \o e

ExceptSignals_noFinally(e) ==
    << Signal("error", ProcessingErrorMsg(e)),
       Signal("log", ProcessingErrorMsg(e)) >>

\* the except block followed by the finally block
ExceptSignals(e) ==
    << Signal("error", ProcessingErrorMsg(e)),
       Signal("log", ProcessingErrorMsg(e)),
       Signal("finished", <<>>) >>

\* lines 100-119 once requests.post has returned or raised
ResponseSignals(resp) ==
    IF resp.kind = "exception" THEN ExceptSignals(resp.body)
    ELSE IF resp.status = 200 THEN
        LET x == ExtractText(resp.json) IN
        IF x.ok
            THEN << Signal("result", x.text),
                    Signal("status", <<"Done in ">> \o Elapsed),
                    Signal("log", <<"OCR completed in ">> \o Elapsed),
                    Signal("log", resp.body),
                    Signal("finished", <<>>) >>
            ELSE ExceptSignals(x.text)
    ELSE << Signal("error", ApiErrorMsg(resp.body)),
            Signal("log", ApiErrorMsg(resp.body)),
            Signal("finished", <<>>) >>

\* the signals of lines 35 and 48, emitted once the image has been read
EncodedSignals(model) ==
    << Signal("log", <<"Image encoded in ">> \o Elapsed),
       Signal("log", <<"Sending to ">> \o model) >>

\* OCRWorker.__init__; pc is where run() stands, todo the signals the
\* statements up to its next blocking call emit, in order
NewWorker(path, model) ==
    [image_path |-> path, model |-> model, is_running |-> TRUE,
     pc |-> "start", todo |-> <<>>, posts |-> 0, io |-> "", resp |-> <<>>]

NoWorker ==
    [image_path |-> <<>>, model |-> <<>>, is_running |-> FALSE,
     pc |-> "free", todo |-> <<>>, posts |-> 0, io |-> "", resp |-> <<>>]

WorkerIds == 1..MaxWorkers

\* a signal emitted in the worker thread is queued as a slot invocation of
\* the main thread
Post(j, s) == [job |-> j, sig |-> s.sig, arg |-> s.arg]

\* OCRWorker.run, line 29: the first status signal; the worker then calls
\* open() on the image
run_start(j) ==
    /\ workers[j].pc = "start"
    /\ LET s == Signal("status", <<"Processing image...">>)
       IN /\ emitted' = [emitted EXCEPT ![j] = Append(@, s)]
          /\ uiQueue' = Append(uiQueue, Post(j, s))
    /\ workers' = [workers EXCEPT ![j].pc = "read"]
    /\ UNCHANGED uiState

\* open()/read() of lines 32-33 returns or raises; io: what it does
run_read(j, io) ==
    /\ workers[j].pc = "read"
    /\ workers' = [workers EXCEPT
          ![j].io = io,
          ![j].pc = IF io = "ok" THEN "encoded" ELSE "outcome",
          ![j].todo = IF io = "ok" THEN EncodedSignals(workers[j].model)
                      ELSE ExceptSignals(IoErrorText(io, workers[j].image_path))]
    /\ UNCHANGED <<emitted, uiQueue>>
    /\ UNCHANGED uiState

\* the next emit of run(): one signal is emitted and queued; run() returns
\* after the last signal of lines 100-119
run_emit(j) ==
    /\ workers[j].pc \in {"encoded", "outcome"}
    /\ workers[j].todo # <<>>
    /\ LET s == Head(workers[j].todo)
       IN /\ emitted' = [emitted EXCEPT ![j] = Append(@, s)]
          /\ uiQueue' = Append(uiQueue, Post(j, s))
    /\ workers' = [workers EXCEPT
          ![j].todo = Tail(@),
          ![j].pc = IF @ = "outcome" /\ Len(workers[j].todo) = 1 THEN "done" ELSE @]
    /\ UNCHANGED uiState

\* line 94: requests.post is called and the request is sent
run_post(j) ==
    /\ workers[j].pc = "encoded"
    /\ workers[j].todo = <<>>
    /\ workers' = [workers EXCEPT ![j].pc = "post", ![j].posts = @ + 1]
    /\ UNCHANGED <<emitted, uiQueue>>
    /\ UNCHANGED uiState

\* requests.post returns or raises; lines 100-119 decide what is emitted
run_respond(j, resp) ==
    /\ workers[j].pc = "post"
    /\ workers' = [workers EXCEPT ![j].pc = "outcome",
                                  ![j].todo = ResponseSignals(resp),
                                  ![j].resp = <<resp>>]
    /\ UNCHANGED <<emitted, uiQueue>>
    /\ UNCHANGED uiState

----------------------------------------------------------------------------
(* OCRApp: helpers *)

preferred_model == <<"gemma:2b">>

LoadingItem == <<"Loading models...">>

\* the pixmap made from clipboard.image()
ClipboardBitmap == <<"<clipboard bitmap>">>

\* QComboBox.currentText(): empty when there is no current item
currentText == 
    IF model_dropdown.index = -1 THEN <<>>
    ELSE model_dropdown.items[model_dropdown.index + 1]

\* QComboBox.findText(text): exact match, index of the first such item or -1
findText(items, text) ==
    LET hits == {i \in 1..Len(items) : items[i] = text}
    IN IF hits = {} THEN -1
       ELSE (CHOOSE i \in hits : \A k \in hits : i <= k) - 1

\* the first URL of a drop or a clipboard the suffix test accepts (<<>>: none)
FirstImageUrl(urls) ==
    LET hits == {i \in 1..Len(urls) : HasImageSuffix(urls[i])}
    IN IF hits = {} THEN <<>>
       ELSE urls[CHOOSE i \in hits : \A k \in hits : i <= k]

Status(text, error) == [text |-> text, error |-> error]

Dialog(icon, text) == [icon |-> icon, text |-> text]

\* a user event reaches the main window: its event loop runs, no modal dialog
\* is open and the window is open
UserInput == uiThread = "idle" /\ modal = <<>> /\ ~closed

\* OCRApp.load_image (which calls load_pixmap and update_status);
\* isNull: whether QPixmap(file_path) is a null pixmap
load_image(file_path, isNull) ==
    /\ image_path' = file_path
    /\ image_info' = basename(file_path)
    /\ image_label' = IF isNull THEN image_label ELSE file_path
    /\ status_bar' = Status(<<"Loaded: ">> \o basename(file_path), FALSE)

\* model_dropdown after lines 283-288 for the listed models
RefreshedDropdown(models) ==
    IF models = <<>> THEN [items |-> <<>>, index |-> -1]
    ELSE IF \E i \in 1..Len(models) : SubstringOf(preferred_model, models[i])
        THEN [items |-> models, index |-> findText(models, preferred_model)]
        ELSE [items |-> models, index |-> 0]

----------------------------------------------------------------------------
(* OCRApp: user events *)

FileDialog == Dialog("file", <<"Select Image">>)

\* image_click_event -> select_image up to QFileDialog.getOpenFileName, a
\* modal dialog with its own event loop
select_image ==
    /\ UserInput
    /\ modal' = Append(modal, FileDialog)
    /\ UNCHANGED <<image_path, image_label, image_info, model_dropdown,
                   available_models, process_btn, result_text, status_bar,
                   worker_thread, workers, emitted, uiQueue, uiThread,
                   timerPending, closed>>

\* getOpenFileName returns file_path (<<>> when cancelled) and select_image
\* goes on (lines 323-324)
select_image_return(file_path, isNull) ==
    /\ uiThread = "idle"
    /\ modal # <<>>
    /\ modal[Len(modal)] = FileDialog
    /\ modal' = SubSeq(modal, 1, Len(modal) - 1)
    /\ IF file_path # <<>>
         THEN load_image(file_path, isNull)
         ELSE UNCHANGED <<image_path, image_info, image_label, status_bar>>
    /\ UNCHANGED <<model_dropdown, available_models, process_btn, result_text,
                   worker_thread, workers, emitted, uiQueue, uiThread,
                   timerPending, closed>>

dropEvent(urls, isNull) ==
    /\ UserInput
    /\ IF FirstImageUrl(urls) # <<>>
         THEN load_image(FirstImageUrl(urls), isNull)
         ELSE UNCHANGED <<image_path, image_info, image_label, status_bar>>
    /\ UNCHANGED <<model_dropdown, available_models, process_btn, result_text,
                   worker_thread, workers, emitted, uiQueue, modal, uiThread,
                   timerPending, closed>>

\* Ctrl+V; mime is the clipboard: [hasImage, urls]
keyPressEvent(mime, isNull) ==
    /\ UserInput
    /\ IF mime.hasImage
         THEN /\ image_label' = IF isNull THEN image_label ELSE ClipboardBitmap
              /\ UNCHANGED <<image_path, image_info, status_bar>>
         ELSE IF FirstImageUrl(mime.urls) # <<>>
                THEN load_image(FirstImageUrl(mime.urls), isNull)
                ELSE UNCHANGED <<image_path, image_info, image_label, status_bar>>
    /\ UNCHANGED <<model_dropdown, available_models, process_btn, result_text,
                   worker_thread, workers, emitted, uiQueue, modal, uiThread,
                   timerPending, closed>>

\* a worker object whose run() has returned and whose signals have all been
\* delivered is referenced by self.worker alone
Finished(j) ==
    /\ workers[j].pc = "done"
    /\ \A i \in 1..Len(uiQueue) : uiQueue[i].job # j

\* the identities a new OCRWorker can take: assigning self.worker drops the
\* last reference to a finished worker
Available == {j \in WorkerIds : workers[j].pc = "free" \/ Finished(j)}

\* the user picks item i of the model QComboBox
SelectModel(i) ==
    /\ UserInput
    /\ i \in 0..(Len(model_dropdown.items) - 1)
    /\ model_dropdown' = [model_dropdown EXCEPT !.index = i]
    /\ UNCHANGED <<image_path, image_label, image_info, available_models,
                   process_btn, result_text, status_bar, worker_thread, workers,
                   emitted, uiQueue, modal, uiThread, timerPending, closed>>

\* lines 335-356: disable the trigger, clear the result, create and start the worker
StartJob(disable) ==
    /\ process_btn' = IF disable THEN FALSE ELSE process_btn
    /\ result_text' = <<>>
    /\ LET j == CHOOSE k \in Available : \A m \in Available : k <= m
       IN /\ worker_thread' = j
          /\ workers' = [k \in WorkerIds |->
                            IF k = j THEN NewWorker(image_path, currentText)
                            ELSE IF k \in Available THEN NoWorker
                            ELSE workers[k]]
          /\ emitted' = [k \in WorkerIds |->
                            IF k \in Available THEN <<>> ELSE emitted[k]]
    /\ UNCHANGED <<image_path, image_label, image_info, model_dropdown,
                   available_models, status_bar, uiQueue, modal, uiThread,
                   timerPending, closed>>

Refuse(text) ==
    /\ modal' = Append(modal, Dialog("warning", text))
    /\ UNCHANGED <<image_path, image_label, image_info, model_dropdown,
                   available_models, process_btn, result_text, status_bar,
                   worker_thread, workers, emitted, uiQueue, uiThread,
                   timerPending, closed>>

RefuseWithStatus(text, status) ==
    /\ modal' = Append(modal, Dialog("warning", text))
    /\ status_bar' = Status(status, TRUE)
    /\ UNCHANGED <<image_path, image_label, image_info, model_dropdown,
                   available_models, process_btn, result_text,
                   worker_thread, workers, emitted, uiQueue, uiThread,
                   timerPending, closed>>

run_ocr_keepsTriggerEnabled ==
    IF image_path = <<>> THEN Refuse(<<"Please select an image first">>)
    ELSE IF currentText = <<>> THEN Refuse(<<"Please select a model first">>)
    ELSE StartJob(FALSE)

run_ocr_setsStatusOnRefusal ==
    IF image_path = <<>>
        THEN RefuseWithStatus(<<"Please select an image first">>, <<"No image selected">>)
    ELSE IF currentText = <<>>
        THEN RefuseWithStatus(<<"Please select a model first">>, <<"No model selected">>)
    ELSE StartJob(TRUE)

\* OCRApp.run_ocr: the definition at lines 326-356, which replaces the one at
\* lines 298-314 when the class body is executed
run_ocr ==
    IF image_path = <<>> THEN Refuse(<<"Please select an image first">>)
    ELSE IF currentText = <<>> THEN Refuse(<<"Please select a model first">>)
    ELSE StartJob(TRUE)

\* process_btn.clicked: a disabled QPushButton emits no clicked signal
Click ==
    /\ UserInput
    /\ process_btn
    /\ Available # {}
    /\ run_ocr

\* OCRApp.closeEvent up to worker_thread.wait(); a thread the attribute holds
\* is running (its event loop ends only on quit()) and self.worker is its worker
closeEvent ==
    /\ UserInput
    /\ IF worker_thread # 0
         THEN /\ workers' = [workers EXCEPT ![worker_thread].is_running = FALSE]
              /\ IF workers[worker_thread].pc = "done"
                   THEN closed' = TRUE /\ UNCHANGED uiThread
                   ELSE uiThread' = "thread.wait" /\ UNCHANGED closed
         ELSE closed' = TRUE /\ UNCHANGED <<workers, uiThread>>
    /\ UNCHANGED <<image_path, image_label, image_info, model_dropdown,
                   available_models, process_btn, result_text, status_bar,
                   worker_thread, emitted, uiQueue, modal, timerPending>>

\* worker_thread.wait() of closeEvent returns once run() has returned, then
\* event.accept(); the slot invocations queued meanwhile were posted before
\* the window closed and the event loop may still dispatch them
closeEvent_accept ==
    /\ uiThread = "thread.wait"
    /\ workers[worker_thread].pc = "done"
    /\ uiThread' = "idle"
    /\ closed' = TRUE
    /\ UNCHANGED <<image_path, image_label, image_info, model_dropdown,
                   available_models, process_btn, result_text, status_bar,
                   worker_thread, workers, emitted, uiQueue, modal, timerPending>>

\* the user closes the QMessageBox on top; handle_error then goes on to
\* update_status("Error occurred", error=True)
DismissDialog ==
    /\ uiThread = "idle"
    /\ modal # <<>>
    /\ modal[Len(modal)] # FileDialog
    /\ modal' = SubSeq(modal, 1, Len(modal) - 1)
    /\ status_bar' = IF modal[Len(modal)].icon = "critical"
                       THEN Status(<<"Error occurred">>, TRUE)
                       ELSE status_bar
    /\ UNCHANGED <<image_path, image_label, image_info, model_dropdown,
                   available_models, process_btn, result_text, worker_thread,
                   workers, emitted, uiQueue, uiThread, timerPending, closed>>

----------------------------------------------------------------------------
(* OCRApp: slots the event loop invokes *)

\* the main thread's event loop takes the next queued slot invocation
Deliver(sig) ==
    /\ uiThread = "idle"
    /\ uiQueue # <<>>
    /\ Head(uiQueue).sig = sig
    /\ uiQueue' = Tail(uiQueue)

handle_result ==
    /\ Deliver("result")
    /\ result_text' = Head(uiQueue).arg
    /\ UNCHANGED <<image_path, image_label, image_info, model_dropdown,
                   available_models, process_btn, status_bar, worker_thread,
                   workers, emitted, modal, uiThread, timerPending, closed>>

\* OCRApp.handle_error up to the blocking QMessageBox.critical
handle_error ==
    /\ Deliver("error")
    /\ modal' = Append(modal, Dialog("critical", Head(uiQueue).arg))
    /\ UNCHANGED <<image_path, image_label, image_info, model_dropdown,
                   available_models, process_btn, result_text, status_bar,
                   worker_thread, workers, emitted, uiThread, timerPending, closed>>

\* OCRApp.update_status as the slot of OCRWorker.status
update_status ==
    /\ Deliver("status")
    /\ status_bar' = Status(Head(uiQueue).arg, FALSE)
    /\ UNCHANGED <<image_path, image_label, image_info, model_dropdown,
                   available_models, process_btn, result_text, worker_thread,
                   workers, emitted, modal, uiThread, timerPending, closed>>

\* OCRApp.log_message: prints only
log_message ==
    /\ Deliver("log")
    /\ UNCHANGED <<image_path, image_label, image_info, model_dropdown,
                   available_models, process_btn, result_text, status_bar,
                   worker_thread, workers, emitted, modal, uiThread,
                   timerPending, closed>>

cleanup_thread_keepsTriggerDisabled ==
    /\ Deliver("finished")
    /\ worker_thread # 0 => workers[worker_thread].pc = "done"
    /\ worker_thread' = 0
    /\ UNCHANGED <<image_path, image_label, image_info, model_dropdown,
                   available_models, process_btn, result_text, status_bar, workers,
                   emitted, modal, uiThread, timerPending, closed>>

\* OCRApp.cleanup_thread; worker_thread.wait() returns once the run() of the
\* thread the attribute holds has returned
cleanup_thread ==
    /\ Deliver("finished")
    /\ worker_thread # 0 => workers[worker_thread].pc = "done"
    /\ worker_thread' = 0
    /\ process_btn' = TRUE
    /\ UNCHANGED <<image_path, image_label, image_info, model_dropdown,
                   available_models, result_text, status_bar, workers,
                   emitted, modal, uiThread, timerPending, closed>>

\* the single-shot timer of __init__ fires: check_ollama_connection up to
\* the requests.get call, which the main thread executes
check_ollama_connection ==
    /\ timerPending
    /\ uiThread = "idle"
    /\ timerPending' = FALSE
    /\ status_bar' = Status(<<"Connecting to Ollama...">>, FALSE)
    /\ uiThread' = "requests.get"
    /\ UNCHANGED <<image_path, image_label, image_info, model_dropdown,
                   available_models, process_btn, result_text, worker_thread,
                   workers, emitted, uiQueue, modal, closed>>

\* a "name" of the listing that is not a string
NotAString == <<"<not a str>">>

\* ', '.join(self.available_models) of line 281 raises TypeError
JoinRaises(models) == \E i \in 1..Len(models) : models[i] = NotAString

JoinErrorText == <<"sequence item 0: expected str instance, int found">>

\* check_ollama_connection from the return of requests.get (lines 276-296);
\* reply: [kind, models, text], kind "ok" (200 with a list of named models),
\* "status" (any other status code) or "exception" (get, json() or
\* model["name"] raised, before line 280 assigns)
check_ollama_connection_reply(reply) ==
    /\ uiThread = "requests.get"
    /\ uiThread' = "idle"
    /\ CASE reply.kind = "ok" /\ ~JoinRaises(reply.models) ->
              /\ available_models' = reply.models
              /\ model_dropdown' = RefreshedDropdown(reply.models)
              /\ status_bar' = Status(<<"Connected | ", ToString(Len(reply.models)),
                                        " models">>, FALSE)
         [] reply.kind = "ok" /\ JoinRaises(reply.models) ->
              /\ available_models' = reply.models
              /\ status_bar' = Status(<<"Error: ">> \o JoinErrorText, TRUE)
              /\ UNCHANGED model_dropdown
         [] reply.kind = "status" ->
              /\ status_bar' = Status(<<"Connection failed">>, TRUE)
              /\ UNCHANGED <<available_models, model_dropdown>>
         [] OTHER ->
              /\ status_bar' = Status(<<"Error: ">> \o reply.text, TRUE)
              /\ UNCHANGED <<available_models, model_dropdown>>
    /\ UNCHANGED <<image_path, image_label, image_info, process_btn, result_text,
                   worker_thread, workers, emitted, uiQueue, modal, timerPending,
                   closed>>

----------------------------------------------------------------------------
(* Inputs *)

Paths == { <<"a", ".PNG">>, <<"notes", ".txt">> }

UrlLists == SeqsUpTo(Paths, MaxUrls) \ {<<>>}

Clipboards == [hasImage : {TRUE}, urls : {<<>>}]
              \cup [hasImage : {FALSE}, urls : SeqsUpTo(Paths, MaxUrls)]

\* what the listing endpoint can name: no model, the preferred model, a
\* model whose name contains the preferred name, another model, the
\* preferred model behind another one, a name that is not a string
Catalogs ==
    { <<>>,
      << <<"gemma:2b">> >>,
      << <<"gemma:2b", "-instruct">> >>,
      << <<"llava">> >>,
      << <<"llava">>, <<"gemma:2b">> >>,
      << NotAString >> }

Replies ==
    [kind : {"ok"}, models : Catalogs, text : {<<>>}]
    \cup [kind : {"status"}, models : {<<>>}, text : {<<"not found">>}]
    \cup [kind : {"exception"}, models : {<<>>}, text : {<<"Connection refused">>}]

\* the item indexes of the dropdown
ItemIndexes == UNION {0..(Len(c) - 1) : c \in Catalogs}

Chars == {" ", "\n", "H"}

NoJson == [kind |-> "invalid", content |-> <<>>]

Jsons == [kind : JsonKinds \ {"content"}, content : {<<>>}]
         \cup [kind : {"content"}, content : SeqsUpTo(Chars, MaxLen)]

\* what requests.post can do: return a response (status, raw body, parsed
\* body) or raise (body is then str(e))
Responses ==
    [kind : {"http"}, status : {200}, body : {<<"<json>">>}, json : Jsons]
    \cup [kind : {"http"}, status : {429}, body : {<<"rate limited">>, <<>>}, json : {NoJson}]
    \cup [kind : {"http"}, status : {500}, body : {<<"<html>">>}, json : {NoJson}]
    \cup [kind : {"exception"}, status : {0}, body : {<<"Read timed out.">>}, json : {NoJson}]

SampleResponses ==
    { r \in Responses :
        \/ r.kind = "exception"
        \/ r.status = 429 /\ r.body # <<>>
        \/ r.status = 200 /\ r.json.kind = "content" /\ r.json.content = <<" ", "H">> }

----------------------------------------------------------------------------
(* The application *)

Init ==
    /\ image_path = <<>>
    /\ image_label = <<>>
    /\ image_info = <<"No image loaded">>
    /\ model_dropdown = [items |-> <<LoadingItem>>, index |-> 0]
    /\ available_models = <<>>
    /\ process_btn = TRUE
    /\ result_text = <<>>
    /\ status_bar = Status(<<"Ready">>, FALSE)
    /\ worker_thread = 0
    /\ workers = [j \in WorkerIds |-> NoWorker]
    /\ emitted = [j \in WorkerIds |-> <<>>]
    /\ uiQueue = <<>>
    /\ modal = <<>>
    /\ uiThread = "idle"
    /\ timerPending = TRUE
    /\ closed = FALSE

\* one step of the application; Nulls: what QPixmap(file_path).isNull() can
\* be for the files of this run
NextFor(Nulls) ==
    \/ select_image
    \/ \E f \in Paths \cup {<<>>}, isNull \in Nulls : select_image_return(f, isNull)
    \/ \E urls \in UrlLists, isNull \in Nulls : dropEvent(urls, isNull)
    \/ \E mime \in Clipboards, isNull \in Nulls : keyPressEvent(mime, isNull)
    \/ \E i \in ItemIndexes : SelectModel(i)
    \/ Click
    \/ closeEvent
    \/ closeEvent_accept
    \/ DismissDialog
    \/ handle_result
    \/ handle_error
    \/ update_status
    \/ log_message
    \/ cleanup_thread
    \/ check_ollama_connection
    \/ \E reply \in Replies : check_ollama_connection_reply(reply)
    \/ \E j \in WorkerIds : run_start(j)
    \/ \E j \in WorkerIds, io \in IoOutcomes : run_read(j, io)
    \/ \E j \in WorkerIds : run_emit(j)
    \/ \E j \in WorkerIds : run_post(j)
    \/ \E j \in WorkerIds, resp \in SampleResponses : run_respond(j, resp)

Next == NextFor(BOOLEAN)

Spec == Init /\ [][Next]_vars

\* the main thread's event loop dispatches the slot invocation at the head
\* of its queue
EventLoop ==
    handle_result \/ handle_error \/ update_status \/ log_message \/ cleanup_thread

\* the event loop while the window is open: app.exec() returns after the
\* window has closed, and no dispatch is certain from then on
OpenEventLoop == ~closed /\ EventLoop

\* a blocking call of the main thread returns
MainThreadResumes ==
    \/ closeEvent_accept
    \/ \E reply \in Replies : check_ollama_connection_reply(reply)

\* the steps a started worker thread takes by itself, and the return of
\* requests.post (timeout=120); the return of open()/read() is not among them
WorkerThread ==
    \/ \E j \in WorkerIds : run_start(j)
    \/ \E j \in WorkerIds : run_emit(j)
    \/ \E j \in WorkerIds : run_post(j)
    \/ \E j \in WorkerIds, resp \in SampleResponses : run_respond(j, resp)

\* The event loop of the open window keeps dispatching, a worker thread keeps
\* running, and requests.get and requests.post return or raise within their
\* timeouts.  Nothing bounds the time open()/read() takes.
Fairness ==
    /\ WF_vars(OpenEventLoop)
    /\ WF_vars(MainThreadResumes)
    /\ WF_vars(WorkerThread)

\* The application under fair scheduling.  Every image file holds a valid
\* image here: the pixmap only decides what image_label shows, which no
\* guard reads.
FairSpec == Init /\ [][NextFor({FALSE})]_vars /\ Fairness

----------------------------------------------------------------------------
(* One job of the worker, on every response of the model *)

\* the application right after run_ocr has started a worker for a loaded image
InitWorker ==
    \E p \in Paths, reply \in Replies :
        LET dd == IF reply.kind = "ok" /\ ~JoinRaises(reply.models)
                    THEN RefreshedDropdown(reply.models)
                  ELSE [items |-> <<LoadingItem>>, index |-> 0]
            text == IF dd.index = -1 THEN <<>> ELSE dd.items[dd.index + 1]
        IN /\ text # <<>>
           /\ image_path = p
           /\ image_label = p
           /\ image_info = basename(p)
           /\ model_dropdown = dd
           /\ available_models = reply.models
           /\ process_btn = FALSE
           /\ result_text = <<>>
           /\ status_bar = Status(<<"Loaded: ">> \o basename(p), FALSE)
           /\ worker_thread = 1
           /\ workers = [j \in WorkerIds |-> IF j = 1 THEN NewWorker(p, text) ELSE NoWorker]
           /\ emitted = [j \in WorkerIds |-> <<>>]
           /\ uiQueue = <<>>
           /\ modal = <<>>
           /\ uiThread = "idle"
           /\ timerPending = FALSE
           /\ closed = FALSE

NextWorker ==
    \/ \E j \in WorkerIds : run_start(j)
    \/ \E j \in WorkerIds, io \in IoOutcomes : run_read(j, io)
    \/ \E j \in WorkerIds : run_emit(j)
    \/ \E j \in WorkerIds : run_post(j)
    \/ \E j \in WorkerIds, resp \in Responses : run_respond(j, resp)

WorkerSpec == InitWorker /\ [][NextWorker]_vars

----------------------------------------------------------------------------
(* Properties *)

Count(e, sig) == Cardinality({i \in 1..Len(e) : e[i].sig = sig})

Args(e, sig) == {e[i].arg : i \in {k \in 1..Len(e) : e[k].sig = sig}}

\* a job is in flight from run_ocr until cleanup_thread has handled its
\* finished signal
InFlight == {j \in WorkerIds : workers[j].pc \notin {"free", "done"}
                               \/ (workers[j].pc = "done" /\ ~Finished(j))}

Idle == process_btn /\ worker_thread = 0 /\ InFlight = {}

\* C1: a worker emits result or error at most once between them and never
\* both, emits nothing after finished, and once run() has returned it has
\* emitted exactly one of result and error and exactly one finished, last.
C1_OneOutcomeThenFinished ==
    \A j \in WorkerIds :
        LET e == emitted[j] IN
        /\ Count(e, "result") + Count(e, "error") <= 1
        /\ Count(e, "finished") <= 1
        /\ \A i \in 1..Len(e) : e[i].sig = "finished" => i = Len(e)
        /\ workers[j].pc = "done" =>
              /\ Count(e, "result") + Count(e, "error") = 1
              /\ Count(e, "finished") = 1
        /\ Count(e, "finished") = 1 => workers[j].pc = "done"

\* a worker whose POST returned 200 with a body that has no content has
\* finished with an error
C1_Witness ==
    \E j \in WorkerIds :
        /\ workers[j].pc = "done"
        /\ workers[j].resp # <<>>
        /\ workers[j].resp[1].status = 200
        /\ workers[j].resp[1].json.kind = "no_content"
        /\ Count(emitted[j], "error") = 1

\* C2: at most one job is in flight, and at most one worker is inside
\* requests.post, in every reachable state.
C2_SingleFlight ==
    /\ Cardinality(InFlight) <= 1
    /\ Cardinality({j \in WorkerIds : workers[j].pc = "post"}) <= 1

\* a job accepted after an earlier job succeeded is inside requests.post and
\* the trigger is disabled
C2_Witness ==
    /\ ~process_btn
    /\ status_bar.text = <<"Done in ">> \o Elapsed
    /\ \E j \in WorkerIds : workers[j].pc = "post"

ModelSelected == currentText \in Range(available_models)

\* C3: while no model of the catalog is selected, no step creates a worker.
C3_NoModelNoWorker ==
    [][~ModelSelected =>
          \A j \in WorkerIds : workers'[j].pc = "start" => workers[j].pc = "start"]_vars

ImageWarning == Dialog("warning", <<"Please select an image first">>)

\* C4: a click on the trigger with no image selected opens the warning and
\* changes nothing else: trigger, result text, status, worker and thread.
C4_NoImageNoChange ==
    [][(image_path = <<>> /\ Click) =>
          /\ modal' = Append(modal, ImageWarning)
          /\ UNCHANGED <<process_btn, result_text, status_bar, worker_thread,
                         workers, emitted, uiQueue, image_label, model_dropdown>>]_vars

\* the warning is open after the listing has run
C4_Witness ==
    /\ modal # <<>>
    /\ modal[Len(modal)] = ImageWarning
    /\ ~timerPending
    /\ uiThread = "idle"

\* t is c without its leading and trailing whitespace
Trimmed(t, c) ==
    /\ t = <<>> \/ (t[1] \notin Whitespace /\ t[Len(t)] \notin Whitespace)
    /\ \E i \in 0..Len(c) :
          /\ i + Len(t) <= Len(c)
          /\ SubSeq(c, i + 1, i + Len(t)) = t
          /\ \A m \in 1..i : c[m] \in Whitespace
          /\ \A m \in (i + Len(t) + 1)..Len(c) : c[m] \in Whitespace

\* C5: once run() has returned: an unreadable image gave an error carrying
\* the OSError text and no POST; otherwise one POST was sent and a result was
\* emitted iff it returned 200 with an extractable content, the text being
\* the trimmed content; a non-200 response gave an error containing the raw
\* body; an exception or an unparsable body gave an error carrying its text.
C5_OutcomeClassification ==
    \A j \in WorkerIds :
        /\ workers[j].io \notin {"", "ok"} => workers[j].posts = 0
        /\ workers[j].pc = "done" =>
            LET w == workers[j]
                results == Args(emitted[j], "result")
                errors == Args(emitted[j], "error")
            IN IF w.resp = <<>>
                 THEN /\ w.posts = 0
                      /\ w.io # "ok"
                      /\ results = {}
                      /\ \E m \in errors : SubstringOf(IoErrorText(w.io, w.image_path), m)
                 ELSE LET r == w.resp[1] IN
                      /\ w.io = "ok"
                      /\ w.posts = 1
                      /\ results # {} <=>
                            (r.kind = "http" /\ r.status = 200 /\ r.json.kind = "content")
                      /\ \A t \in results : Trimmed(t, r.json.content)
                      /\ (r.kind = "http" /\ r.status # 200) =>
                            \E m \in errors : SubstringOf(r.body, m)
                      /\ r.kind = "exception" =>
                            \E m \in errors : SubstringOf(r.body, m)
                      /\ (r.kind = "http" /\ r.status = 200 /\ r.json.kind # "content") =>
                            \E m \in errors : SubstringOf(ParseException(r.json.kind), m)

\* a 200 response whose content is " H " has given the result "H"
C5_Witness ==
    \E j \in WorkerIds :
        /\ workers[j].pc = "done"
        /\ workers[j].resp # <<>>
        /\ workers[j].resp[1].json.content = <<" ", "H", " ">>
        /\ Args(emitted[j], "result") = {<<"H">>}

\* no worker stays inside open()/read() of the image for ever
ReadReturns == []<>(\A j \in WorkerIds : workers[j].pc # "read")

\* C6, amended: if the read of the image returns, then whenever a job is in
\* flight, eventually the trigger is enabled again with no job in flight and
\* no thread held, or the window has been closed.
C6_EventuallyIdle == ReadReturns => ((InFlight # {}) ~> (Idle \/ closed))

\* C6 as stated: whenever a job is in flight, eventually the trigger is
\* enabled again with no job in flight and no thread held.
C6_AlwaysReenabled == (InFlight # {}) ~> Idle

\* the application is idle again after a job that ended in an error
C6_Witness ==
    /\ Idle
    /\ ~closed
    /\ \E j \in WorkerIds : workers[j].pc = "done" /\ Count(emitted[j], "error") = 1

\* C7: whenever the image area comes to show another image, that image is
\* the selected image.
C7_ShownImageIsSelected ==
    [][image_label' # image_label => image_path' = image_label']_vars

\* C8: the main thread is never inside a network call, nor waiting for a
\* thread that is inside one.
C8_UiNeverBlockedOnNetwork ==
    /\ uiThread # "requests.get"
    /\ ~(uiThread = "thread.wait" /\ workers[worker_thread].pc = "post")

\* C9: after a successful listing of a non-empty catalog a model of the
\* catalog is selected, and it contains the preferred name if any entry does.
C9_PreferredOrDefault ==
    [][\A reply \in Replies :
          (/\ reply.kind = "ok"
           /\ reply.models # <<>>
           /\ ~JoinRaises(reply.models)
           /\ check_ollama_connection_reply(reply)) =>
              /\ currentText' \in Range(reply.models)
              /\ (\E m \in Range(reply.models) : SubstringOf(preferred_model, m))
                    => SubstringOf(preferred_model, currentText')
              /\ (~\E m \in Range(reply.models) : SubstringOf(preferred_model, m))
                    => currentText' = reply.models[1]]_vars

\* C10: the selected image path is empty or ends in an image suffix.
C10_SelectedPathHasImageSuffix ==
    image_path = <<>> \/ HasImageSuffix(image_path)

====
